---- MODULE Spec2Model ----
(***************************************************************************)
(* Lead workflow of the CRM: the leads page (status transitions, callback  *)
(* and sent/prospect modals, edit mode, add/import, DNC migration), also   *)
(* open in a second browser, and the callback due-alert pollers (the       *)
(* global CallbackAlerts component, the leads page's own interval tick and *)
(* the sales-reports CallbackAlerts component).                            *)
(*                                                                         *)
(* Timestamps are integers (milliseconds since the epoch); an ISO string   *)
(* names one instant, so callback_at is modelled by that instant.          *)
(***************************************************************************)
EXTENDS Integers, Sequences, FiniteSets, TLC

VARIABLES
    campaign,        \* LeadsPage: campaign resolved from the URL
    store,           \* Supabase table leads: id -> row
    leads,           \* LeadsPage state `leads`: id -> in-memory lead
    nextId,          \* next row id the leads table hands out
    backlog,         \* Supabase table dnc_backlog: sequence of rows
    cbLead,          \* callback modal: id of cbLead, or NoLead when closed
    spLead,          \* sent/prospect modal: id of spLead, or NoLead
    spMode,          \* sent/prospect modal: "SENT" or "PROSPECT"
    editDraft,       \* edit mode: the draft (with its id), or NoDraft
    now,             \* Date.now()
    alertedRef,      \* CallbackAlerts: alertedRef.current (insertion order)
    runningRef,      \* CallbackAlerts: runningRef.current
    tickNow,         \* CallbackAlerts: `now` of the tick awaiting its query
    pageAlertedRef,  \* LeadsPage: alertedRef.current (insertion order)
    alertedLS,       \* localStorage['t555_callback_alerted']
    alerts,          \* history: alert() calls of CallbackAlerts, per key
    pageAlerts,      \* history: alert() calls of the LeadsPage tick, per key
    mounted,         \* CallbackAlerts: its interval is set (the effect is live)
    reports,         \* Supabase table sales_reports: id -> row
    userId,          \* sales-reports CallbackAlerts: state `userId`
    srScope,         \* sales-reports CallbackAlerts: prop `scope`
    srAlertedRef,    \* sales-reports CallbackAlerts: alertedRef.current
    srRunningRef,    \* sales-reports CallbackAlerts: runningRef.current
    srTickNow,       \* sales-reports CallbackAlerts: `now` of the tick in flight
    srAlertedLS,     \* localStorage['t555_sr_callback_alerted']
    srAlerts,        \* history: alert() calls of the sales-reports poller, per key
    peerLeads,       \* LeadsPage open in a second browser: its state `leads`
    lastOp           \* history: the last handler run and its inputs

vars == <<campaign, store, leads, nextId, backlog, cbLead, spLead, spMode,
          editDraft, now, alertedRef, runningRef, tickNow, pageAlertedRef,
          alertedLS, alerts, pageAlerts, mounted, reports, userId, srScope,
          srAlertedRef, srRunningRef, srTickNow, srAlertedLS, srAlerts, peerLeads,
          lastOp>>

coordVars == <<cbLead, spLead, spMode, editDraft>>
srVars == <<reports, userId, srScope, srAlertedRef, srRunningRef, srTickNow,
            srAlertedLS, srAlerts>>
schedVars == <<now, alertedRef, runningRef, tickNow, pageAlertedRef,
               alertedLS, alerts, pageAlerts, mounted, srVars>>

-----------------------------------------------------------------------------
(* Bounds of the model *)

MaxLeads == 1      \* leads the intake flows create
PageLeads == 2     \* leads already in the table where a specification starts with some
MaxPolls == 3      \* poll intervals the clock advances within a day
MaxDays == 1       \* whole days the clock advances

-----------------------------------------------------------------------------
(* Values *)

NullStr == "<null>"
NullAt == -1
NoLead == 0
NoDraft == [id |-> 0]
NoTick == -1

LeadIds == 1..(IF MaxLeads > PageLeads THEN MaxLeads ELSE PageLeads)

Range(s) == {s[i] : i \in DOMAIN s}

-----------------------------------------------------------------------------
(* src/lib/campaignConfig.ts *)

CampaignTable ==
    [ECO4 |->
        [statusOptions |-> <<"New Lead", "Prospect Client", "Contacted", "Qualified",
                             "Pending Photos", "Sent To Client", "Looking for home",
                             "Callback", "Boiler Above 86%", "No Benefits",
                             "Dead Number", "Not Interested", "Voicemail", "No Answer",
                             "VM 5+ days", "NA 5+ days">>,
         activeStatuses |-> <<"New Lead", "Prospect Client", "Contacted", "Qualified",
                              "Pending Photos", "Sent To Client", "Looking for home",
                              "Callback", "Voicemail", "No Answer">>,
         archiveStatuses |-> <<"Boiler Above 86%", "No Benefits", "Dead Number",
                               "Not Interested", "VM 5+ days", "NA 5+ days">>,
         statusTriggers |-> [s \in {"Callback", "Sent To Client", "Prospect Client"} |->
                                CASE s = "Callback" -> "CALLBACK"
                                  [] s = "Sent To Client" -> "SENT_TO_CLIENT"
                                  [] s = "Prospect Client" -> "PROSPECT_CLIENT"]],
     SOLAR |->
        [statusOptions |-> <<"New Lead", "Contacted", "Qualified", "Survey Booked",
                             "Quote Sent", "Won", "Lost", "Callback", "Voicemail",
                             "No Answer", "Not Interested", "Dead Number">>,
         activeStatuses |-> <<"New Lead", "Contacted", "Qualified", "Survey Booked",
                              "Quote Sent", "Callback", "Voicemail", "No Answer">>,
         archiveStatuses |-> <<"Won", "Lost", "Not Interested", "Dead Number">>,
         statusTriggers |-> [s \in {"Callback"} |-> "CALLBACK"]],
     PCP |->
        [statusOptions |-> <<"New Lead", "Contacted", "Eligible", "Not Eligible",
                             "Forms Sent", "Signed", "Submitted", "Paid", "Callback",
                             "Voicemail", "No Answer", "Dead Number", "Not Interested">>,
         activeStatuses |-> <<"New Lead", "Contacted", "Eligible", "Forms Sent", "Signed",
                              "Submitted", "Callback", "Voicemail", "No Answer">>,
         archiveStatuses |-> <<"Not Eligible", "Paid", "Dead Number", "Not Interested">>,
         statusTriggers |-> [s \in {"Callback"} |-> "CALLBACK"]],
     DIESEL |->
        [statusOptions |-> <<"New Lead", "Contacted", "Qualified", "Docs Requested",
                             "Submitted", "Paid", "Callback", "Not Interested",
                             "Dead Number">>,
         activeStatuses |-> <<"New Lead", "Contacted", "Qualified", "Docs Requested",
                              "Submitted", "Callback">>,
         archiveStatuses |-> <<"Paid", "Not Interested", "Dead Number">>,
         statusTriggers |-> [s \in {"Callback"} |-> "CALLBACK"]]]

\* a slip in the table: "Voicemail" filed under SOLAR's archive as well
CampaignsVoicemailArchived ==
    [CampaignTable EXCEPT !.SOLAR.archiveStatuses = Append(@, "Voicemail")]

CAMPAIGNS == CampaignTable

CampaignKeys == DOMAIN CAMPAIGNS

\* const campaign = rawCampaign in CAMPAIGNS ? rawCampaign : 'ECO4'
ResolveCampaign(raw) ==
    IF raw = NullStr THEN "ECO4"
    ELSE IF raw \in CampaignKeys THEN raw ELSE "ECO4"

cfg == CAMPAIGNS[campaign]

\* every status taken for one without trigger
TriggerNone(c, status) == "NONE"

\* cfg.statusTriggers?.[nextStatus] || 'NONE'
TriggerOf(c, status) ==
    IF status \in DOMAIN c.statusTriggers THEN c.statusTriggers[status] ELSE "NONE"

-----------------------------------------------------------------------------
(* Inputs *)

\* the statuses the model picks in the status <select>s (all are STATUS_OPTIONS)
StatusSample == {"New Lead", "Callback", "Sent To Client", "Prospect Client", "Dead Number"}
StatusChoices(c) == Range(c.statusOptions) \cap StatusSample

RawCampaigns == {NullStr, "ECO4", "SOLAR", "BOILER"}
PhoneInputs == {"07111"}
NameInputs == {"", "Ann"}
StaffInputs == {"  ", "Georgie"}
SentToInputs == {"", "Acme"}
NoteInputs == {"  ", "after 5pm"}

\* String.prototype.trim on the inputs above
Trim(s) == IF s = "  " THEN "" ELSE s

\* datetime-local values (minutes, local time) typed into the callback modal;
\* NaT is a value `new Date(v)` cannot parse (the empty input)
NaT == -1
CbWhenInputs == {NaT, 1, 2}

MsPerMinute == 60000

\* localInputToIso: null for an unparsable value, else the instant's ISO string
localInputToIso(v) == IF v = NaT THEN NullAt ELSE v * MsPerMinute

\* String.prototype.toLowerCase on the status names that occur
Lower(s) ==
    CASE s = "Callback" -> "callback"
      [] s = "CALLBACK" -> "callback"
      [] OTHER -> s

-----------------------------------------------------------------------------
(* Rows and the Supabase calls *)

NewRow(camp, phone, status) ==
    [campaign |-> camp, phone |-> phone, status |-> status,
     callback_at |-> NullAt, callback_note |-> NullStr,
     sent_by_name |-> NullStr, sent_to_client |-> NullStr,
     prospect_by_name |-> NullStr]

\* { ...row, ...payload }
Merge(row, payload) ==
    [f \in DOMAIN row |-> IF f \in DOMAIN payload THEN payload[f] ELSE row[f]]

\* supabase.from('leads').update(payload).eq('id', id)
DbUpdate(id, payload) ==
    IF id \in DOMAIN store THEN [store EXCEPT ![id] = Merge(@, payload)] ELSE store

\* setLeads((prev) => prev.map((l) => (l.id === id ? { ...l, ...payload } : l)))
MemUpdate(id, payload) ==
    IF id \in DOMAIN leads THEN [leads EXCEPT ![id] = Merge(@, payload)] ELSE leads

\* supabase.from('leads').insert([row]): the table hands out the next id
DbInsert(row) == [i \in DOMAIN store \cup {nextId} |-> IF i = nextId THEN row ELSE store[i]]

\* supabase.from('leads').delete().eq('id', id)
DbDelete(id) == [i \in DOMAIN store \ {id} |-> store[i]]

\* setLeads((prev) => prev.filter((l) => l.id !== id))
MemDelete(id) == [i \in DOMAIN leads \ {id} |-> leads[i]]

\* the in-memory list patched before the answer of the update is looked at
MemOptimistic(id, payload) == MemUpdate(id, payload)

\* if (error) return ...: setLeads is not reached, the list stays as it is
MemOnError(id, payload) == leads

Op(op, id, target, when, res) ==
    [op |-> op, id |-> id, target |-> target, when |-> when, res |-> res,
     ins |-> "-", del |-> "-", ls |-> "-"]

ModalOpen == cbLead # NoLead \/ spLead # NoLead

-----------------------------------------------------------------------------
(* LeadsPage: status transitions *)

LeavingCallback(status, nextStatus) ==
    Lower(status) = "callback" /\ Lower(nextStatus) # "callback"

QuickPayload(lead, nextStatus) ==
    IF LeavingCallback(lead.status, nextStatus)
    THEN [status |-> nextStatus, callback_at |-> NullAt, callback_note |-> NullStr]
    ELSE [status |-> nextStatus]

updateLeadStatusQuick(id, nextStatus, err) ==
    /\ ~ModalOpen
    /\ id \in DOMAIN leads
    /\ editDraft.id # id
    /\ nextStatus \in StatusChoices(cfg)
    /\ LET lead == leads[id]
           trigger == TriggerOf(cfg, nextStatus)
       IN CASE trigger = "CALLBACK" ->
                 /\ cbLead' = id
                 /\ lastOp' = Op("quick", id, nextStatus, NullAt, "modal")
                 /\ UNCHANGED <<store, leads, spLead, spMode>>
            [] trigger = "SENT_TO_CLIENT" ->
                 /\ spLead' = id
                 /\ spMode' = "SENT"
                 /\ lastOp' = Op("quick", id, nextStatus, NullAt, "modal")
                 /\ UNCHANGED <<store, leads, cbLead>>
            [] trigger = "PROSPECT_CLIENT" ->
                 /\ spLead' = id
                 /\ spMode' = "PROSPECT"
                 /\ lastOp' = Op("quick", id, nextStatus, NullAt, "modal")
                 /\ UNCHANGED <<store, leads, cbLead>>
            [] OTHER ->
                 /\ IF err
                    THEN /\ lastOp' = Op("quick", id, nextStatus, NullAt, "error")
                         /\ leads' = MemOnError(id, QuickPayload(lead, nextStatus))
                         /\ UNCHANGED store
                    ELSE /\ store' = DbUpdate(id, QuickPayload(lead, nextStatus))
                         /\ leads' = MemUpdate(id, QuickPayload(lead, nextStatus))
                         /\ lastOp' = Op("quick", id, nextStatus, NullAt, "ok")
                 /\ UNCHANGED <<cbLead, spLead, spMode>>
    /\ UNCHANGED <<campaign, nextId, backlog, editDraft>>
    /\ UNCHANGED <<schedVars, peerLeads>>

closeCallbackModal ==
    /\ cbLead # NoLead
    /\ cbLead' = NoLead
    /\ lastOp' = Op("closeCallback", cbLead, "Callback", NullAt, "cancel")
    /\ UNCHANGED <<campaign, store, leads, nextId, backlog, spLead, spMode, editDraft>>
    /\ UNCHANGED <<schedVars, peerLeads>>

CallbackPayload(iso, note) ==
    [status |-> "Callback", callback_at |-> iso,
     callback_note |-> IF Trim(note) = "" THEN NullStr ELSE Trim(note)]

saveCallbackForLead(cbWhen, cbNote, err) ==
    /\ cbLead # NoLead
    /\ LET iso == localInputToIso(cbWhen)
       IN IF iso = NullAt
          THEN /\ lastOp' = Op("saveCallback", cbLead, "Callback", iso, "rejected")
               /\ UNCHANGED <<store, leads, cbLead>>
          ELSE IF err
          THEN /\ lastOp' = Op("saveCallback", cbLead, "Callback", iso, "error")
               /\ leads' = MemOnError(cbLead, CallbackPayload(iso, cbNote))
               /\ UNCHANGED <<store, cbLead>>
          ELSE /\ store' = DbUpdate(cbLead, CallbackPayload(iso, cbNote))
               /\ leads' = MemUpdate(cbLead, CallbackPayload(iso, cbNote))
               /\ cbLead' = NoLead
               /\ lastOp' = Op("saveCallback", cbLead, "Callback", iso, "ok")
    /\ UNCHANGED <<campaign, nextId, backlog, spLead, spMode, editDraft>>
    /\ UNCHANGED <<schedVars, peerLeads>>

closeSentProspectModal ==
    /\ spLead # NoLead
    /\ spLead' = NoLead
    /\ lastOp' = Op("closeSentProspect", spLead,
                    IF spMode = "SENT" THEN "Sent To Client" ELSE "Prospect Client",
                    NullAt, "cancel")
    /\ UNCHANGED <<campaign, store, leads, nextId, backlog, cbLead, spMode, editDraft>>
    /\ UNCHANGED <<schedVars, peerLeads>>

\* a payload that also blanks the other trigger's attribution
SentProspectPayloadClearing(mode, staff, sentTo) ==
    IF mode = "SENT"
    THEN [status |-> "Sent To Client", sent_by_name |-> staff, sent_to_client |-> sentTo,
          prospect_by_name |-> NullStr]
    ELSE [status |-> "Prospect Client", prospect_by_name |-> staff,
          sent_by_name |-> NullStr, sent_to_client |-> NullStr]

SentProspectPayload(mode, staff, sentTo) ==
    IF mode = "SENT"
    THEN [status |-> "Sent To Client", sent_by_name |-> staff, sent_to_client |-> sentTo]
    ELSE [status |-> "Prospect Client", prospect_by_name |-> staff]

saveSentProspect(spStaff, spSentTo, err) ==
    /\ spLead # NoLead
    /\ LET staff == Trim(spStaff)
           sentTo == Trim(spSentTo)
           payload == SentProspectPayload(spMode, staff, sentTo)
       IN IF staff = "" \/ (spMode = "SENT" /\ sentTo = "")
          THEN /\ lastOp' = Op("saveSentProspect", spLead, payload.status, NullAt, "rejected")
               /\ UNCHANGED <<store, leads, spLead>>
          ELSE IF err
          THEN /\ lastOp' = Op("saveSentProspect", spLead, payload.status, NullAt, "error")
               /\ leads' = MemOnError(spLead, payload)
               /\ UNCHANGED <<store, spLead>>
          ELSE /\ store' = DbUpdate(spLead, payload)
               /\ leads' = MemUpdate(spLead, payload)
               /\ spLead' = NoLead
               /\ lastOp' = Op("saveSentProspect", spLead, payload.status, NullAt, "ok")
    /\ UNCHANGED <<campaign, nextId, backlog, cbLead, spMode, editDraft>>
    /\ UNCHANGED <<schedVars, peerLeads>>

-----------------------------------------------------------------------------
(* LeadsPage: edit mode *)

startEdit(id) ==
    /\ ~ModalOpen
    /\ id \in DOMAIN leads
    /\ editDraft.id # id
    /\ editDraft' = [id |-> id, row |-> leads[id]]
    /\ lastOp' = Op("startEdit", id, NullStr, NullAt, "ok")
    /\ UNCHANGED <<campaign, store, leads, nextId, backlog, cbLead, spLead, spMode>>
    /\ UNCHANGED <<schedVars, peerLeads>>

\* the "Status (Edit Mode)" <select>
setEditStatus(status) ==
    /\ ~ModalOpen
    /\ editDraft # NoDraft
    /\ status \in StatusChoices(cfg)
    /\ status # editDraft.row.status
    /\ editDraft' = [editDraft EXCEPT !.row.status = status]
    /\ lastOp' = Op("setEditStatus", editDraft.id, status, NullAt, "ok")
    /\ UNCHANGED <<campaign, store, leads, nextId, backlog, cbLead, spLead, spMode>>
    /\ UNCHANGED <<schedVars, peerLeads>>

cancelEdit ==
    /\ ~ModalOpen
    /\ editDraft # NoDraft
    /\ editDraft' = NoDraft
    /\ lastOp' = Op("cancelEdit", editDraft.id, NullStr, NullAt, "cancel")
    /\ UNCHANGED <<campaign, store, leads, nextId, backlog, cbLead, spLead, spMode>>
    /\ UNCHANGED <<schedVars, peerLeads>>

EditPayload(draft) ==
    [phone |-> draft.phone, status |-> draft.status,
     sent_by_name |-> draft.sent_by_name, sent_to_client |-> draft.sent_to_client,
     prospect_by_name |-> draft.prospect_by_name]

saveEdit(err) ==
    /\ ~ModalOpen
    /\ editDraft # NoDraft
    /\ IF err
       THEN /\ lastOp' = Op("saveEdit", editDraft.id, editDraft.row.status, NullAt, "error")
            /\ leads' = MemOnError(editDraft.id, editDraft.row)
            /\ UNCHANGED <<store, editDraft>>
       ELSE /\ store' = DbUpdate(editDraft.id, EditPayload(editDraft.row))
            /\ leads' = MemUpdate(editDraft.id, editDraft.row)
            /\ editDraft' = NoDraft
            /\ lastOp' = Op("saveEdit", editDraft.id, editDraft.row.status, NullAt, "ok")
    /\ UNCHANGED <<campaign, nextId, backlog, cbLead, spLead, spMode>>
    /\ UNCHANGED <<schedVars, peerLeads>>

-----------------------------------------------------------------------------
(* Intake: manual add, CSV import, fetch *)

handleAddLead(full_name, phone, status, err) ==
    /\ ~ModalOpen
    /\ nextId <= MaxLeads
    /\ status \in StatusChoices(cfg)
    /\ IF Trim(full_name) = ""
       THEN /\ lastOp' = Op("addLead", NoLead, NullStr, NullAt, "rejected")
            /\ UNCHANGED <<store, leads, nextId>>
       ELSE IF err
       THEN /\ lastOp' = Op("addLead", NoLead, NullStr, NullAt, "error")
            /\ UNCHANGED <<store, leads, nextId>>
       ELSE /\ store' = DbInsert(NewRow(campaign, Trim(phone), status))
            /\ leads' = [i \in DOMAIN leads \cup {nextId} |->
                            IF i = nextId THEN NewRow(campaign, Trim(phone), status)
                            ELSE leads[i]]
            /\ nextId' = nextId + 1
            /\ lastOp' = Op("addLead", nextId, NullStr, NullAt, "ok")
    /\ UNCHANGED <<campaign, backlog, cbLead, spLead, spMode, editDraft>>
    /\ UNCHANGED <<schedVars, peerLeads>>

\* cleanText(v).toUpperCase() on the campaign cells that occur
Upper(s) ==
    CASE s = "pcp" -> "PCP"
      [] s = "boiler" -> "BOILER"
      [] OTHER -> s

cleanCampaign(v, fallback) ==
    IF Upper(Trim(v)) \in CampaignKeys THEN Upper(Trim(v)) ELSE fallback

\* cleanPhone: trim, then drop every character that is not a digit or '+'
cleanPhone(v) ==
    CASE v = "07 111" -> "07111"
      [] v = " - " -> ""
      [] OTHER -> Trim(v)

CsvCampaignCells == {"pcp", "boiler"}
CsvStatusCells == {"", "Callback"}
CsvPhoneCells == {"07 111", " - "}
ImportCampaigns == {"ECO4"}

\* mapRows on a one-row CSV: the insert it yields, or none
mapRows(selected, r) ==
    IF Trim(r.full_name) = "" \/ cleanPhone(r.phone) = "" THEN <<>>
    ELSE << [NewRow(cleanCampaign(r.campaign, selected), cleanPhone(r.phone),
                    IF Trim(r.status) = "" THEN "New" ELSE Trim(r.status))
             EXCEPT !.callback_at = NullAt] >>

\* ImportLeadsClient.handleImport on a one-row CSV
handleImport(selected, r, err) ==
    /\ nextId <= MaxLeads
    /\ LET inserts == mapRows(selected, r)
       IN IF inserts = <<>>
          THEN /\ lastOp' = Op("import", NoLead, Upper(Trim(r.campaign)), NullAt, "rejected")
               /\ UNCHANGED <<store, nextId>>
          ELSE IF err
          THEN /\ lastOp' = Op("import", NoLead, Upper(Trim(r.campaign)), NullAt, "error")
               /\ UNCHANGED <<store, nextId>>
          ELSE /\ store' = DbInsert(inserts[1])
               /\ nextId' = nextId + 1
               /\ lastOp' = Op("import", nextId, Upper(Trim(r.campaign)), NullAt, "ok")
    /\ UNCHANGED <<campaign, leads, backlog, cbLead, spLead, spMode, editDraft>>
    /\ UNCHANGED <<schedVars, peerLeads>>

fetchLeads(err) ==
    /\ ~ModalOpen
    /\ leads' = IF err THEN <<>>
                ELSE [i \in {j \in DOMAIN store : store[j].campaign = campaign} |-> store[i]]
    /\ lastOp' = Op("fetchLeads", NoLead, NullStr, NullAt, IF err THEN "error" ELSE "ok")
    /\ UNCHANGED <<campaign, store, nextId, backlog, cbLead, spLead, spMode, editDraft>>
    /\ UNCHANGED <<schedVars, peerLeads>>

-----------------------------------------------------------------------------
(* LeadsPage open in a second browser, on the same table *)

\* updateLeadStatusQuick in the second browser, to a status without trigger
peerUpdateLeadStatusQuick(id, nextStatus, err) ==
    /\ id \in DOMAIN peerLeads
    /\ nextStatus \in StatusChoices(cfg)
    /\ TriggerOf(cfg, nextStatus) = "NONE"
    /\ LET payload == QuickPayload(peerLeads[id], nextStatus)
       IN IF err
          THEN /\ lastOp' = Op("peerQuick", id, nextStatus, NullAt, "error")
               /\ UNCHANGED <<store, peerLeads>>
          ELSE /\ store' = DbUpdate(id, payload)
               /\ peerLeads' = [peerLeads EXCEPT ![id] = Merge(@, payload)]
               /\ lastOp' = Op("peerQuick", id, nextStatus, NullAt, "ok")
    /\ UNCHANGED <<campaign, leads, nextId, backlog>>
    /\ UNCHANGED coordVars
    /\ UNCHANGED schedVars

\* fetchLeads in the second browser
peerFetchLeads ==
    /\ peerLeads' = [i \in {j \in DOMAIN store : store[j].campaign = campaign} |-> store[i]]
    /\ lastOp' = Op("peerFetchLeads", NoLead, NullStr, NullAt, "ok")
    /\ UNCHANGED <<campaign, store, leads, nextId, backlog>>
    /\ UNCHANGED coordVars
    /\ UNCHANGED schedVars

-----------------------------------------------------------------------------
(* Callback instants and dedup keys *)

CallbackInstants == {localInputToIso(v) : v \in CbWhenInputs \ {NaT}}
Keys == LeadIds \X CallbackInstants

-----------------------------------------------------------------------------
(* The clock *)

pollMs == 25000
dueWindowMs == 60000
maxOverdueMs == 24 * 60 * 60 * 1000
QueryLimit == 25
LsCap == 600
pageWindowMs == 60 * 1000
PageLsCap == 500

\* time passes: one poll interval, or a day
advanceClock(d) ==
    /\ \/ d = pollMs /\ (now % maxOverdueMs) \div pollMs < MaxPolls
       \/ d = maxOverdueMs /\ now \div maxOverdueMs < MaxDays
    /\ now' = now + d
    /\ lastOp' = Op("advanceClock", NoLead, NullStr, NullAt, "-")
    /\ UNCHANGED <<campaign, store, leads, peerLeads, nextId, backlog>>
    /\ UNCHANGED coordVars
    /\ UNCHANGED <<alertedRef, runningRef, tickNow, pageAlertedRef, alertedLS,
                   alerts, pageAlerts, mounted, srVars>>

-----------------------------------------------------------------------------
(* components/callbackalerts.tsx: CallbackAlerts *)

\* the window filter left out of the query
DueByAnyTime(t, cutoff) == TRUE

\* .lte('callback_at', windowCutoffIso)
DueBy(t, cutoff) == t <= cutoff

\* if (t < now - maxOverdueMs) continue
IsStale(t, tnow) == t < tnow - maxOverdueMs

\* the dedup key built from the lead id alone
AlertKeyByLead(id, at) == <<id, MsPerMinute>>

\* `${l.id}:${l.callback_at}`
AlertKey(id, at) == <<id, at>>

\* the has(key) check left out
NeverAlerted(alerted, key) == FALSE

\* alertedRef.current.has(key)
AlreadyAlerted(alerted, key) == key \in Range(alerted)

\* Array.from(set).slice(-n)
LastN(s, n) == IF Len(s) <= n THEN s ELSE SubSeq(s, Len(s) - n + 1, Len(s))

\* alertedRef.current.add(key): a Set keeps insertion order and no duplicates
SetAdd(s, key) == IF key \in Range(s) THEN s ELSE Append(s, key)

\* the rows matching .eq('status','Callback').not('callback_at','is',null).lte(...)
Matching(cutoff) ==
    {i \in DOMAIN store : /\ store[i].status = "Callback"
                          /\ store[i].callback_at # NullAt
                          /\ DueBy(store[i].callback_at, cutoff)}

Orderings(S) ==
    {f \in [1..Cardinality(S) -> S] : \A i, j \in 1..Cardinality(S) : i # j => f[i] # f[j]}

\* the rows S in every order that is ascending in callback_at
RECURSIVE Ascending(_)
Ascending(S) ==
    IF S = {} THEN {<<>>}
    ELSE LET first == {i \in S : \A j \in S : store[i].callback_at <= store[j].callback_at}
         IN UNION {{<<i>> \o rest : rest \in Ascending(S \ {i})} : i \in first}

\* .order('callback_at', { ascending: true }).limit(25): rows due at the same
\* instant come in any order
QueryResults(cutoff) ==
    {SubSeq(f, 1, IF Len(f) < QueryLimit THEN Len(f) ELSE QueryLimit) :
        f \in Ascending(Matching(cutoff))}

\* the first row of the for loop that reaches alert(), or 0
FirstToAlert(rows, tnow, alerted) ==
    LET hit == {i \in DOMAIN rows :
                    /\ ~IsStale(store[rows[i]].callback_at, tnow)
                    /\ ~AlreadyAlerted(alerted, AlertKey(rows[i], store[rows[i]].callback_at))}
    IN IF hit = {} THEN 0 ELSE CHOOSE i \in hit : \A j \in hit : i <= j

Bump(f, key) == [f EXCEPT ![key] = IF @ < 2 THEN @ + 1 ELSE @]

\* the loop that goes on after an alert
NoBreakAfterAlert == FALSE

\* break // 1 alert per tick (prevents spam)
BreakAfterAlert == TRUE

\* the rows of the for loop that reach alert(), in the order of the loop
ToAlert(rows, tnow, alerted) ==
    LET first == FirstToAlert(rows, tnow, alerted)
        hit(i) == /\ ~IsStale(store[rows[i]].callback_at, tnow)
                  /\ ~AlreadyAlerted(alerted, AlertKey(rows[i], store[rows[i]].callback_at))
    IN IF first = 0 THEN <<>>
       ELSE IF BreakAfterAlert THEN <<first>>
       ELSE SelectSeq([i \in DOMAIN rows |-> i], hit)

RECURSIVE AddAll(_, _)
AddAll(s, keys) == IF keys = <<>> THEN s ELSE AddAll(SetAdd(s, Head(keys)), Tail(keys))

RECURSIVE BumpAll(_, _)
BumpAll(f, keys) == IF keys = <<>> THEN f ELSE BumpAll(Bump(f, Head(keys)), Tail(keys))

\* the try/catch around localStorage.setItem: "saved", or "failed" when it throws
LsResult(lsFails) == IF lsFails THEN "failed" ELSE "saved"

\* the guard left out: a tick never finds another one running
NeverRunning(running) == FALSE

\* if (runningRef.current) return
TickRunning(running) == running

\* tick, up to the await of the query; the interval fires while the effect is live
tickStart ==
    /\ mounted
    /\ IF TickRunning(runningRef)
       THEN /\ lastOp' = Op("tickStart", NoLead, NullStr, now, "busy")
            /\ UNCHANGED <<runningRef, tickNow>>
       ELSE /\ runningRef' = TRUE
            /\ tickNow' = now
            /\ lastOp' = Op("tickStart", NoLead, NullStr, now, "query")
    /\ UNCHANGED <<campaign, store, leads, peerLeads, nextId, backlog>>
    /\ UNCHANGED coordVars
    /\ UNCHANGED <<now, alertedRef, pageAlertedRef, alertedLS, alerts, pageAlerts,
                   mounted, srVars>>

\* runningRef after a tick whose error return skips the reset
StuckAfterError(err) == err

\* finally { runningRef.current = false }
AfterFinally(err) == FALSE

\* tick, from the query's answer to the finally block
tickFinish(err, lsFails) ==
    /\ runningRef
    /\ tickNow # NoTick
    /\ \E rows \in QueryResults(tickNow + dueWindowMs) :
          LET idx == ToAlert(rows, tickNow, alertedRef)
              keys == [j \in DOMAIN idx |->
                          AlertKey(rows[idx[j]], store[rows[idx[j]]].callback_at)]
          IN IF err
             THEN /\ lastOp' = Op("tick", NoLead, NullStr, tickNow, "error")
                  /\ UNCHANGED <<alertedRef, alertedLS, alerts>>
             ELSE IF idx = <<>>
             THEN /\ lastOp' = Op("tick", NoLead, NullStr, tickNow, "none")
                  /\ UNCHANGED <<alertedRef, alertedLS, alerts>>
             ELSE /\ alertedRef' = AddAll(alertedRef, keys)
                  /\ alertedLS' = IF lsFails THEN alertedLS
                                  ELSE LastN(AddAll(alertedRef, keys), LsCap)
                  /\ alerts' = BumpAll(alerts, keys)
                  /\ lastOp' = [Op("tick", rows[idx[1]], NullStr, tickNow, "alert")
                                   EXCEPT !.ls = LsResult(lsFails)]
    /\ runningRef' = AfterFinally(err)
    /\ tickNow' = NoTick
    /\ UNCHANGED <<campaign, store, leads, peerLeads, nextId, backlog>>
    /\ UNCHANGED coordVars
    /\ UNCHANGED <<now, pageAlertedRef, pageAlerts, mounted, srVars>>

\* return () => window.clearInterval(id): a tick awaiting its query goes on
unmount ==
    /\ mounted
    /\ mounted' = FALSE
    /\ lastOp' = Op("unmount", NoLead, NullStr, now, "ok")
    /\ UNCHANGED <<campaign, store, leads, peerLeads, nextId, backlog>>
    /\ UNCHANGED coordVars
    /\ UNCHANGED <<now, alertedRef, runningRef, tickNow, pageAlertedRef, alertedLS,
                   alerts, pageAlerts, srVars>>

\* the component is mounted anew (no tick of the old one is still in flight):
\* fresh refs, the alerted keys loaded from localStorage
mount ==
    /\ ~mounted
    /\ ~runningRef
    /\ mounted' = TRUE
    /\ alertedRef' = alertedLS
    /\ lastOp' = Op("mount", NoLead, NullStr, now, "ok")
    /\ UNCHANGED <<campaign, store, leads, peerLeads, nextId, backlog>>
    /\ UNCHANGED coordVars
    /\ UNCHANGED <<now, runningRef, tickNow, pageAlertedRef, alertedLS,
                   alerts, pageAlerts, srVars>>

\* what a page load leaves: the table and localStorage stay, what was in memory
\* is gone, every component is mounted and the leads page has fetched
Reloaded ==
    /\ mounted' = TRUE
    /\ runningRef' = FALSE
    /\ tickNow' = NoTick
    /\ pageAlertedRef' = alertedLS'
    /\ alertedRef' = alertedLS'
    /\ leads' = [i \in {j \in DOMAIN store : store[j].campaign = campaign} |-> store[i]]
    /\ cbLead' = NoLead
    /\ spLead' = NoLead
    /\ spMode' = "SENT"
    /\ editDraft' = NoDraft
    /\ srAlertedRef' = srAlertedLS
    /\ srRunningRef' = FALSE
    /\ srTickNow' = NoTick
    /\ UNCHANGED <<campaign, store, nextId, backlog, now, alerts, pageAlerts,
                   reports, userId, srScope, srAlertedLS, srAlerts, peerLeads>>

\* the browser reloads the page
reload ==
    /\ alertedLS' = alertedLS
    /\ Reloaded
    /\ lastOp' = Op("reload", NoLead, NullStr, now, "ok")

\* the page dies in the loop of a tick after localStorage.setItem and before
\* alert(), and is loaded again
tickCrash(lsFails) ==
    /\ runningRef
    /\ tickNow # NoTick
    /\ \E rows \in QueryResults(tickNow + dueWindowMs) :
          LET i == FirstToAlert(rows, tickNow, alertedRef)
              key == AlertKey(rows[i], store[rows[i]].callback_at)
          IN /\ i # 0
             /\ alertedLS' = IF lsFails THEN alertedLS
                             ELSE LastN(SetAdd(alertedRef, key), LsCap)
             /\ lastOp' = [Op("tickCrash", rows[i], NullStr, tickNow, "crash")
                              EXCEPT !.ls = LsResult(lsFails)]
    /\ Reloaded

-----------------------------------------------------------------------------
(* LeadsPage: the page's own callback tick *)

\* leads.filter(...).filter(...).sort(...): a stable sort, the list is newest first
PageDue(tnow) ==
    LET S == {i \in DOMAIN leads : /\ Lower(leads[i].status) = "callback"
                                   /\ leads[i].callback_at # NullAt
                                   /\ leads[i].callback_at <= tnow + pageWindowMs}
    IN CHOOSE f \in Orderings(S) :
          \A i, j \in DOMAIN f :
              i < j => \/ leads[f[i]].callback_at < leads[f[j]].callback_at
                       \/ /\ leads[f[i]].callback_at = leads[f[j]].callback_at
                          /\ f[i] > f[j]

PageFirstToAlert(due, alerted) ==
    LET hit == {i \in DOMAIN due :
                    ~AlreadyAlerted(alerted, AlertKey(due[i], leads[due[i]].callback_at))}
    IN IF hit = {} THEN 0 ELSE CHOOSE i \in hit : \A j \in hit : i <= j

pageTick(lsFails) ==
    /\ LET due == PageDue(now)
           i == PageFirstToAlert(due, pageAlertedRef)
           key == AlertKey(due[i], leads[due[i]].callback_at)
       IN IF i = 0
          THEN /\ lastOp' = Op("pageTick", NoLead, NullStr, now, "none")
               /\ UNCHANGED <<pageAlertedRef, alertedLS, pageAlerts>>
          ELSE /\ pageAlertedRef' = SetAdd(pageAlertedRef, key)
               /\ alertedLS' = IF lsFails THEN alertedLS
                               ELSE LastN(SetAdd(pageAlertedRef, key), PageLsCap)
               /\ pageAlerts' = Bump(pageAlerts, key)
               /\ lastOp' = Op("pageTick", due[i], NullStr, now, "alert")
    /\ UNCHANGED <<campaign, store, leads, peerLeads, nextId, backlog>>
    /\ UNCHANGED coordVars
    /\ UNCHANGED <<now, alertedRef, runningRef, tickNow, alerts, mounted, srVars>>

-----------------------------------------------------------------------------
(* Sales reports: CallbackAlerts *)

UserIds == {"u1", "u2"}
maxPerTick == 25
SrLsCap == 600

\* a row of sales_reports, as far as the poller reads it
ReportRow(status, at, rep) == [status |-> status, callback_at |-> at, rep_user_id |-> rep]

\* supabase.auth.getSession() / getUser(): the session's user id arrives
loadSession(uid) ==
    /\ userId = NullStr
    /\ ~srRunningRef
    /\ userId' = uid
    /\ lastOp' = Op("loadSession", NoLead, uid, now, "ok")
    /\ UNCHANGED <<campaign, store, leads, peerLeads, nextId, backlog>>
    /\ UNCHANGED coordVars
    /\ UNCHANGED <<now, alertedRef, runningRef, tickNow, pageAlertedRef, alertedLS,
                   alerts, pageAlerts, mounted>>
    /\ UNCHANGED <<reports, srScope, srAlertedRef, srRunningRef, srTickNow,
                   srAlertedLS, srAlerts>>

\* the query's filters; q.eq('rep_user_id', userId) under scope MINE
srMatching(cutoff) ==
    {i \in DOMAIN reports :
        /\ reports[i].status = "Callback"
        /\ reports[i].callback_at # NullAt
        /\ reports[i].callback_at <= cutoff
        /\ (srScope = "MINE" /\ userId # NullStr) => reports[i].rep_user_id = userId}

\* .order('callback_at', { ascending: true }).limit(maxPerTick)
srQueryResults(cutoff) ==
    {SubSeq(f, 1, IF Len(f) < maxPerTick THEN Len(f) ELSE maxPerTick) :
        f \in {g \in Orderings(srMatching(cutoff)) :
                  \A i, j \in DOMAIN g :
                      i < j => reports[g[i]].callback_at <= reports[g[j]].callback_at}}

\* `${r.id}:${r.callback_at}`
srAlertKey(id, at) == <<id, at>>

\* break // 1 alert per tick (prevents spam)
srBreakAfterAlert == TRUE

\* the rows of the for loop that reach alert(), in the order of the loop
srToAlert(rows, tnow, alerted) ==
    LET hit(i) == /\ ~(reports[rows[i]].callback_at < tnow - maxOverdueMs)
                  /\ srAlertKey(rows[i], reports[rows[i]].callback_at) \notin Range(alerted)
        hits == SelectSeq([i \in DOMAIN rows |-> i], hit)
    IN IF hits = <<>> THEN <<>>
       ELSE IF srBreakAfterAlert THEN <<Head(hits)>>
       ELSE hits

\* tick, up to the await of the query
srTickStart ==
    /\ IF TickRunning(srRunningRef)
       THEN /\ lastOp' = Op("srTickStart", NoLead, NullStr, now, "busy")
            /\ UNCHANGED <<srRunningRef, srTickNow>>
       ELSE IF srScope = "MINE" /\ userId = NullStr
       THEN /\ lastOp' = Op("srTickStart", NoLead, NullStr, now, "nouser")
            /\ UNCHANGED <<srRunningRef, srTickNow>>
       ELSE /\ srRunningRef' = TRUE
            /\ srTickNow' = now
            /\ lastOp' = Op("srTickStart", NoLead, NullStr, now, "query")
    /\ UNCHANGED <<campaign, store, leads, peerLeads, nextId, backlog>>
    /\ UNCHANGED coordVars
    /\ UNCHANGED <<now, alertedRef, runningRef, tickNow, pageAlertedRef, alertedLS,
                   alerts, pageAlerts, mounted>>
    /\ UNCHANGED <<reports, userId, srScope, srAlertedRef, srAlertedLS, srAlerts>>

\* tick, from the query's answer to the finally block
srTickFinish(err, lsFails) ==
    /\ srRunningRef
    /\ srTickNow # NoTick
    /\ \E rows \in srQueryResults(srTickNow + dueWindowMs) :
          LET idx == srToAlert(rows, srTickNow, srAlertedRef)
              keys == [j \in DOMAIN idx |->
                          srAlertKey(rows[idx[j]], reports[rows[idx[j]]].callback_at)]
          IN IF err
             THEN /\ lastOp' = Op("srTick", NoLead, NullStr, srTickNow, "error")
                  /\ UNCHANGED <<srAlertedRef, srAlertedLS, srAlerts>>
             ELSE IF idx = <<>>
             THEN /\ lastOp' = Op("srTick", NoLead, NullStr, srTickNow, "none")
                  /\ UNCHANGED <<srAlertedRef, srAlertedLS, srAlerts>>
             ELSE /\ srAlertedRef' = AddAll(srAlertedRef, keys)
                  /\ srAlertedLS' = IF lsFails THEN srAlertedLS
                                    ELSE LastN(AddAll(srAlertedRef, keys), SrLsCap)
                  /\ srAlerts' = BumpAll(srAlerts, keys)
                  /\ lastOp' = [Op("srTick", rows[idx[1]], NullStr, srTickNow, "alert")
                                   EXCEPT !.ls = LsResult(lsFails)]
    /\ srRunningRef' = FALSE
    /\ srTickNow' = NoTick
    /\ UNCHANGED <<campaign, store, leads, peerLeads, nextId, backlog>>
    /\ UNCHANGED coordVars
    /\ UNCHANGED <<now, alertedRef, runningRef, tickNow, pageAlertedRef, alertedLS,
                   alerts, pageAlerts, mounted>>
    /\ UNCHANGED <<reports, userId, srScope>>

-----------------------------------------------------------------------------
(* LeadsPage: delete and DNC migration *)

\* error messages of the dnc_backlog insert, as the words of the lower-cased text
NoError == <<>>
DuplicatePhoneMsg ==
    <<"duplicate", "key", "value", "violates", "unique", "constraint",
      "dnc_backlog_phone_unique">>
RlsMsg ==
    <<"new", "row", "violates", "row-level", "security", "policy", "for", "table",
      "dnc_backlog">>
FetchMsg == <<"failed", "to", "fetch">>
InsertFaults == {NoError, RlsMsg, FetchMsg}

\* msg.includes(pattern), on words
Includes(msg, pat) ==
    \E i \in 1..Len(msg) : i + Len(pat) - 1 <= Len(msg) /\ SubSeq(msg, i, i + Len(pat) - 1) = pat

\* every insert error taken for a duplicate phone
isDuplicatePhoneAlways(msg) == TRUE

\* no insert error taken for a duplicate phone
isDuplicatePhoneNever(msg) == FALSE

\* any constraint violation taken for a duplicate phone
isDuplicatePhoneLoose(msg) ==
    \/ Includes(msg, <<"duplicate", "key">>)
    \/ Includes(msg, <<"violates">>)

isDuplicatePhone(msg) ==
    \/ Includes(msg, <<"duplicate", "key">>)
    \/ Includes(msg, <<"already", "exists">>)
    \/ Includes(msg, <<"unique">>)
    \/ Includes(msg, <<"dnc_backlog_phone_unique">>)

BacklogPhones == {backlog[i].phone : i \in DOMAIN backlog}

\* supabase.from('dnc_backlog').insert([row]): the error it answers with; the
\* table is unique on phone
InsertBacklogError(phone, fault) ==
    IF fault # NoError THEN fault
    ELSE IF phone \in BacklogPhones THEN DuplicatePhoneMsg
    ELSE NoError

InsertOutcome(msg) ==
    IF msg = NoError THEN "ok" ELSE IF msg = DuplicatePhoneMsg THEN "duplicate" ELSE "other"

\* ins: how the insert ended; del: how the delete ends when it is sent
DncOp(id, res, ins, del) ==
    [Op("dnc", id, NullStr, NullAt, res) EXCEPT !.ins = ins, !.del = del]

\* `ok` is the answer to confirm(); `fault` what goes wrong with the insert other
\* than the unique constraint; `delErr` whether the delete fails
handleDNC(id, ok, fault, delErr) ==
    /\ ~ModalOpen
    /\ id \in DOMAIN leads
    /\ editDraft.id # id
    /\ LET lead == leads[id]
           insErr == InsertBacklogError(lead.phone, fault)
           del == IF delErr THEN "error" ELSE "ok"
       IN IF ~ok
          THEN /\ lastOp' = DncOp(id, "cancel", "-", "-")
               /\ UNCHANGED <<store, leads, backlog, editDraft>>
          ELSE IF insErr # NoError /\ ~isDuplicatePhone(insErr)
          THEN /\ lastOp' = DncOp(id, "insertFailed", InsertOutcome(insErr), del)
               /\ UNCHANGED <<store, leads, backlog, editDraft>>
          ELSE /\ backlog' = IF insErr = NoError
                             THEN Append(backlog, [lead_id |-> id, phone |-> lead.phone])
                             ELSE backlog
               /\ IF delErr
                  THEN /\ lastOp' = DncOp(id, "deleteFailed", InsertOutcome(insErr), del)
                       /\ UNCHANGED <<store, leads, editDraft>>
                  ELSE /\ store' = DbDelete(id)
                       /\ leads' = MemDelete(id)
                       /\ editDraft' = IF editDraft.id = id THEN NoDraft ELSE editDraft
                       /\ lastOp' = DncOp(id, "ok", InsertOutcome(insErr), del)
    /\ UNCHANGED <<campaign, nextId, cbLead, spLead, spMode>>
    /\ UNCHANGED <<schedVars, peerLeads>>

handleDelete(id, ok, err) ==
    /\ ~ModalOpen
    /\ id \in DOMAIN leads
    /\ editDraft.id # id
    /\ IF ~ok
       THEN /\ lastOp' = Op("delete", id, NullStr, NullAt, "cancel")
            /\ UNCHANGED <<store, leads, editDraft>>
       ELSE IF err
       THEN /\ lastOp' = Op("delete", id, NullStr, NullAt, "error")
            /\ UNCHANGED <<store, leads, editDraft>>
       ELSE /\ store' = DbDelete(id)
            /\ leads' = MemDelete(id)
            /\ editDraft' = IF editDraft.id = id THEN NoDraft ELSE editDraft
            /\ lastOp' = Op("delete", id, NullStr, NullAt, "ok")
    /\ UNCHANGED <<campaign, nextId, backlog, cbLead, spLead, spMode>>
    /\ UNCHANGED <<schedVars, peerLeads>>

-----------------------------------------------------------------------------
(* The leads page: intake, transitions, edit mode *)

\* the sales-reports poller before its first tick, on the table `rows`
InitReports(rows) ==
    /\ reports = rows
    /\ userId = NullStr
    /\ srScope = "MINE"
    /\ srAlertedRef = <<>>
    /\ srRunningRef = FALSE
    /\ srTickNow = NoTick
    /\ srAlertedLS = <<>>
    /\ srAlerts = [k \in Keys |-> 0]

InitCommon ==
    /\ nextId = 1
    /\ backlog = <<>>
    /\ cbLead = NoLead
    /\ spLead = NoLead
    /\ spMode = "SENT"
    /\ editDraft = NoDraft
    /\ now = 0
    /\ alertedRef = <<>>
    /\ runningRef = FALSE
    /\ tickNow = NoTick
    /\ pageAlertedRef = <<>>
    /\ alertedLS = <<>>
    /\ alerts = [k \in Keys |-> 0]
    /\ pageAlerts = [k \in Keys |-> 0]
    /\ mounted = TRUE
    /\ InitReports(<<>>)
    /\ lastOp = Op("mount", NoLead, NullStr, NullAt, "ok")

Init ==
    /\ campaign \in {ResolveCampaign(raw) : raw \in RawCampaigns}
    /\ store = <<>>
    /\ leads = <<>>
    /\ peerLeads = <<>>
    /\ InitCommon

Next ==
    \/ \E n \in NameInputs, p \in PhoneInputs, s \in StatusSample, err \in BOOLEAN :
          handleAddLead(n, p, s, err)
    \/ \E sel \in ImportCampaigns, c \in CsvCampaignCells, n \in NameInputs,
          p \in CsvPhoneCells, s \in CsvStatusCells, err \in BOOLEAN :
          handleImport(sel, [campaign |-> c, full_name |-> n, phone |-> p, status |-> s], err)
    \/ \E err \in BOOLEAN : fetchLeads(err)
    \/ \E id \in LeadIds, s \in StatusSample, err \in BOOLEAN :
          updateLeadStatusQuick(id, s, err)
    \/ closeCallbackModal
    \/ \E w \in {NaT, 1}, n \in {"after 5pm"}, err \in BOOLEAN :
          saveCallbackForLead(w, n, err)
    \/ closeSentProspectModal
    \/ \E st \in StaffInputs, to \in SentToInputs, err \in BOOLEAN :
          saveSentProspect(st, to, err)
    \/ \E id \in LeadIds : startEdit(id)
    \/ \E s \in StatusSample : setEditStatus(s)
    \/ cancelEdit
    \/ \E err \in BOOLEAN : saveEdit(err)

Spec == Init /\ [][Next]_vars

-----------------------------------------------------------------------------
(* The leads page open on leads that are already in the table *)

DncPhones == {"07111", "07222"}

InitPage(phones) ==
    /\ campaign = "ECO4"
    /\ store \in [1..PageLeads -> {NewRow("ECO4", p, "New Lead") : p \in phones}]
    /\ leads = store
    /\ peerLeads = store
    /\ nextId = PageLeads + 1
    /\ backlog = <<>>
    /\ cbLead = NoLead
    /\ spLead = NoLead
    /\ spMode = "SENT"
    /\ editDraft = NoDraft
    /\ now = 0
    /\ alertedRef = <<>>
    /\ runningRef = FALSE
    /\ tickNow = NoTick
    /\ pageAlertedRef = <<>>
    /\ alertedLS = <<>>
    /\ alerts = [k \in Keys |-> 0]
    /\ pageAlerts = [k \in Keys |-> 0]
    /\ mounted = TRUE
    /\ InitReports(<<>>)
    /\ lastOp = Op("mount", NoLead, NullStr, NullAt, "ok")

\* callbacks are scheduled, rescheduled and left while the pollers run
NextCallbacks ==
    \/ \E id \in LeadIds, s \in {"New Lead", "Callback"} : updateLeadStatusQuick(id, s, FALSE)
    \/ closeCallbackModal
    \/ \E w \in CbWhenInputs \ {NaT} : saveCallbackForLead(w, "after 5pm", FALSE)
    \/ \E d \in {pollMs, maxOverdueMs} : advanceClock(d)

NextAlerts ==
    \/ NextCallbacks
    \/ tickStart
    \/ \E err \in BOOLEAN : tickFinish(err, FALSE)

InitAlerts == InitPage(PhoneInputs)

SpecAlerts == InitAlerts /\ [][NextAlerts]_vars

NextPageTick ==
    \/ NextCallbacks
    \/ pageTick(FALSE)

SpecPageTick == InitAlerts /\ [][NextPageTick]_vars

\* the lead whose callback the device specifications schedule
DeviceLeads == {1}

\* one browser: CallbackAlerts with storage that can refuse a write, the
\* component unmounted and mounted, the page reloaded or dying in a tick
NextDevice ==
    \/ \E id \in DeviceLeads : updateLeadStatusQuick(id, "Callback", FALSE)
    \/ saveCallbackForLead(1, "after 5pm", FALSE)
    \/ advanceClock(pollMs)
    \/ tickStart
    \/ \E err \in BOOLEAN, lsFails \in BOOLEAN : tickFinish(err, lsFails)
    \/ \E lsFails \in BOOLEAN : tickCrash(lsFails)
    \/ unmount
    \/ mount
    \/ reload

SpecDevice == InitAlerts /\ [][NextDevice]_vars

\* the leads page open in the browser: its own tick runs beside CallbackAlerts
NextTwoPollers ==
    \/ \E id \in DeviceLeads : updateLeadStatusQuick(id, "Callback", FALSE)
    \/ saveCallbackForLead(1, "after 5pm", FALSE)
    \/ advanceClock(pollMs)
    \/ tickStart
    \/ \E err \in BOOLEAN : tickFinish(err, FALSE)
    \/ pageTick(FALSE)

SpecTwoPollers == InitAlerts /\ [][NextTwoPollers]_vars

\* both CallbackAlerts components polling tables that hold due callbacks
InitPollers ==
    /\ campaign = "ECO4"
    /\ store \in [1..PageLeads ->
                    {[NewRow("ECO4", p, "Callback") EXCEPT !.callback_at = t] :
                        p \in PhoneInputs, t \in CallbackInstants}]
    /\ leads = store
    /\ peerLeads = store
    /\ nextId = PageLeads + 1
    /\ backlog = <<>>
    /\ cbLead = NoLead
    /\ spLead = NoLead
    /\ spMode = "SENT"
    /\ editDraft = NoDraft
    /\ now = 0
    /\ alertedRef = <<>>
    /\ runningRef = FALSE
    /\ tickNow = NoTick
    /\ pageAlertedRef = <<>>
    /\ alertedLS = <<>>
    /\ alerts = [k \in Keys |-> 0]
    /\ pageAlerts = [k \in Keys |-> 0]
    /\ mounted = TRUE
    /\ reports \in [1..PageLeads ->
                      {ReportRow("Callback", MsPerMinute, u) : u \in UserIds}]
    /\ userId = NullStr
    /\ srScope \in {"MINE", "TEAM"}
    /\ srAlertedRef = <<>>
    /\ srRunningRef = FALSE
    /\ srTickNow = NoTick
    /\ srAlertedLS = <<>>
    /\ srAlerts = [k \in Keys |-> 0]
    /\ lastOp = Op("mount", NoLead, NullStr, NullAt, "ok")

NextPollers ==
    \/ advanceClock(pollMs)
    \/ tickStart
    \/ \E err \in BOOLEAN : tickFinish(err, FALSE)
    \/ loadSession("u1")
    \/ srTickStart
    \/ \E err \in BOOLEAN : srTickFinish(err, FALSE)

SpecPollers == InitPollers /\ [][NextPollers]_vars

\* more leads than one query returns, all in Callback and due, each at its own
\* minute, the clock standing where all are inside the window and none is stale
ManyLeads == QueryLimit + 2
ManyKeys == {<<i, i * MsPerMinute>> : i \in 1..ManyLeads}

InitBacklogged ==
    /\ campaign = "ECO4"
    /\ store = [i \in 1..ManyLeads |->
                   [NewRow("ECO4", "07111", "Callback") EXCEPT !.callback_at = i * MsPerMinute]]
    /\ leads = store
    /\ peerLeads = store
    /\ nextId = ManyLeads + 1
    /\ backlog = <<>>
    /\ cbLead = NoLead
    /\ spLead = NoLead
    /\ spMode = "SENT"
    /\ editDraft = NoDraft
    /\ now = (ManyLeads - 1) * MsPerMinute
    /\ alertedRef = <<>>
    /\ runningRef = FALSE
    /\ tickNow = NoTick
    /\ pageAlertedRef = <<>>
    /\ alertedLS = <<>>
    /\ alerts = [k \in Keys \cup ManyKeys |-> 0]
    /\ pageAlerts = [k \in Keys \cup ManyKeys |-> 0]
    /\ mounted = TRUE
    /\ InitReports(<<>>)
    /\ lastOp = Op("mount", NoLead, NullStr, NullAt, "ok")

NextBacklogged ==
    \/ tickStart
    \/ \E err \in BOOLEAN : tickFinish(err, FALSE)

\* the interval keeps firing and queries keep being answered
SpecBacklogged ==
    /\ InitBacklogged
    /\ [][NextBacklogged]_vars
    /\ WF_vars(tickStart)
    /\ SF_vars(tickFinish(FALSE, FALSE))

\* two browsers on the same leads: each changes statuses from its own copy
NextTwoPages ==
    \/ \E id \in LeadIds, s \in {"Callback", "Dead Number"}, err \in BOOLEAN :
          updateLeadStatusQuick(id, s, err)
    \/ closeCallbackModal
    \/ saveCallbackForLead(1, "after 5pm", FALSE)
    \/ \E err \in BOOLEAN : fetchLeads(err)
    \/ \E id \in LeadIds, s \in {"New Lead", "Dead Number"}, err \in BOOLEAN :
          peerUpdateLeadStatusQuick(id, s, err)
    \/ peerFetchLeads

SpecTwoPages == InitAlerts /\ [][NextTwoPages]_vars

\* supabase.auth.signOut(); router.replace('/login'): the protected pages go,
\* and come back with fresh component state when the next user has signed in
signOut ==
    /\ userId # NullStr
    /\ ~srRunningRef
    /\ userId' = NullStr
    /\ srAlertedRef' = srAlertedLS
    /\ lastOp' = Op("signOut", NoLead, userId, now, "ok")
    /\ UNCHANGED <<campaign, store, leads, peerLeads, nextId, backlog>>
    /\ UNCHANGED coordVars
    /\ UNCHANGED <<now, alertedRef, runningRef, tickNow, pageAlertedRef, alertedLS,
                   alerts, pageAlerts, mounted>>
    /\ UNCHANGED <<reports, srScope, srRunningRef, srTickNow, srAlertedLS, srAlerts>>

\* one browser used by one user after another, the sales-reports poller running
NextSharedBrowser ==
    \/ advanceClock(pollMs)
    \/ \E uid \in UserIds : loadSession(uid)
    \/ signOut
    \/ srTickStart
    \/ \E err \in BOOLEAN : srTickFinish(err, FALSE)

SpecSharedBrowser == InitPollers /\ [][NextSharedBrowser]_vars

NextDnc ==
    \/ \E id \in LeadIds, ok \in BOOLEAN, fault \in InsertFaults, delErr \in BOOLEAN :
          handleDNC(id, ok, fault, delErr)
    \/ \E id \in LeadIds, ok \in BOOLEAN, err \in BOOLEAN : handleDelete(id, ok, err)
    \/ \E err \in BOOLEAN : fetchLeads(err)

InitDnc == InitPage(DncPhones)

SpecDnc == InitDnc /\ [][NextDnc]_vars

-----------------------------------------------------------------------------
(* Properties: status transitions *)

\* C1: every step that moves a stored lead out of "Callback" to another status
\* leaves callback_at and callback_note null, in the table and in memory.
C1_LeavingCallbackClears ==
    [][\A id \in LeadIds :
          (/\ id \in DOMAIN store
           /\ id \in DOMAIN store'
           /\ store[id].status = "Callback"
           /\ store'[id].status # "Callback")
          => /\ store'[id].callback_at = NullAt
             /\ store'[id].callback_note = NullStr
             /\ id \in DOMAIN leads' => /\ leads'[id].callback_at = NullAt
                                        /\ leads'[id].callback_note = NullStr]_vars

\* C2: every stored lead has a callback_at exactly when its status is "Callback".
C2_CallbackAtIffCallback ==
    \A id \in DOMAIN store :
        (store[id].callback_at # NullAt) <=> (store[id].status = "Callback")

\* C3: a request for a status whose trigger is CALLBACK that comes without a
\* valid callback time writes nothing: table and in-memory leads stay as they were.
C3_CallbackNeedsTime ==
    [][(/\ lastOp'.op \in {"quick", "saveCallback", "saveEdit"}
        /\ TriggerOf(cfg, lastOp'.target) = "CALLBACK"
        /\ lastOp'.when = NullAt)
       => UNCHANGED <<store, leads>>]_vars

-----------------------------------------------------------------------------
(* Properties: campaign table *)

\* C7: in each campaign of the table, the one the page is open on included,
\* activeStatuses and archiveStatuses are within statusOptions and share no
\* status.
C7_CampaignPartition ==
    \A k \in CampaignKeys \cup {campaign} :
        /\ Range(CAMPAIGNS[k].activeStatuses) \subseteq Range(CAMPAIGNS[k].statusOptions)
        /\ Range(CAMPAIGNS[k].archiveStatuses) \subseteq Range(CAMPAIGNS[k].statusOptions)
        /\ Range(CAMPAIGNS[k].activeStatuses) \cap Range(CAMPAIGNS[k].archiveStatuses) = {}

\* a lead of the page's campaign stands in an archive status that is no active one
C7_Witness ==
    \E id \in DOMAIN store :
        /\ store[id].campaign = campaign
        /\ store[id].status \in Range(cfg.archiveStatuses)
        /\ store[id].status \notin Range(cfg.activeStatuses)
        /\ store[id].status \in Range(cfg.statusOptions)

-----------------------------------------------------------------------------
(* Properties: CallbackAlerts *)

\* a step in which a tick of CallbackAlerts ends after its query was answered
TickAnswered == runningRef /\ ~runningRef' /\ lastOp'.res # "error"

\* the Callback leads inside the tick's window that are not stale and whose key
\* alertedRef does not hold
Alertable ==
    {id \in DOMAIN store :
        /\ store[id].status = "Callback"
        /\ store[id].callback_at # NullAt
        /\ store[id].callback_at <= tickNow + dueWindowMs
        /\ store[id].callback_at >= tickNow - maxOverdueMs
        /\ <<id, store[id].callback_at>> \notin Range(alertedRef)}

InWindow ==
    {id \in DOMAIN store :
        /\ store[id].status = "Callback"
        /\ store[id].callback_at # NullAt
        /\ store[id].callback_at <= tickNow + dueWindowMs}

\* C4 as stated: a tick alerts every Callback lead that is inside the window and
\* was not alerted before, and no key is alerted twice.
C4_AlertOnFirstDueTick ==
    [][/\ \A k \in Keys : alerts'[k] <= 1
       /\ TickAnswered =>
             \A id \in InWindow :
                 alerts[<<id, store[id].callback_at>>] = 0
                    => alerts'[<<id, store[id].callback_at>>] = 1]_vars

\* C4 amended: no key is alerted twice; a tick whose query is answered alerts
\* nothing when no returned lead is alertable, and otherwise exactly one lead,
\* one with the earliest callback_at among the alertable ones.
C4_OnceForEarliestAlertable ==
    [][/\ \A k \in Keys : alerts'[k] <= 1
       /\ (TickAnswered /\ Cardinality(InWindow) <= QueryLimit) =>
             IF Alertable = {}
             THEN alerts' = alerts
             ELSE \E id \in Alertable :
                     /\ \A j \in Alertable : store[id].callback_at <= store[j].callback_at
                     /\ alerts' = [alerts EXCEPT ![<<id, store[id].callback_at>>] = 1]]_vars

\* a lead alerted once is still in Callback at the same due time, inside the
\* window of the tick that just ended, and that tick alerted nothing
C4_Witness ==
    /\ lastOp.op = "tick"
    /\ lastOp.res = "none"
    /\ \E id \in DOMAIN store :
          /\ store[id].status = "Callback"
          /\ store[id].callback_at # NullAt
          /\ store[id].callback_at <= lastOp.when + dueWindowMs
          /\ store[id].callback_at < lastOp.when
          /\ alerts[<<id, store[id].callback_at>>] = 1

\* C5: no alert, of either poller, is for a callback_at older than 24h at the
\* tick that examines it, and no dedup key is recorded for one.
C5_NoStaleAlert ==
    [][\A k \in Keys :
          /\ (alerts'[k] # alerts[k] \/ (k \in Range(alertedRef') /\ k \notin Range(alertedRef)))
                => k[2] >= tickNow - maxOverdueMs
          /\ (pageAlerts'[k] # pageAlerts[k]
                \/ (k \in Range(pageAlertedRef') /\ k \notin Range(pageAlertedRef)))
                => k[2] >= now - maxOverdueMs]_vars

\* C8: a tick alerts, and records a key, only for a callback_at that is not
\* later than the tick's now + dueWindow.
C8_NothingBeyondWindow ==
    [][\A k \in Keys :
          (alerts'[k] # alerts[k] \/ (k \in Range(alertedRef') /\ k \notin Range(alertedRef)))
             => /\ tickNow # NoTick
                /\ k[2] <= tickNow + dueWindowMs]_vars

\* a tick ended with nothing alerted while a Callback lead is due later than its
\* window, and that lead's key is neither alerted nor recorded
C8_Witness ==
    /\ lastOp.op = "tick"
    /\ lastOp.res = "none"
    /\ \E id \in DOMAIN store :
          /\ store[id].status = "Callback"
          /\ store[id].callback_at > lastOp.when + dueWindowMs
          /\ alerts[<<id, store[id].callback_at>>] = 0
          /\ <<id, store[id].callback_at>> \notin Range(alertedRef)

\* C9: alerts follow the stored due time only, and keys of one lead are
\* independent: an alert is for the callback_at the lead has now; and a lead
\* that alone is alertable is alerted for its present callback_at whether or not
\* another due time of the same lead was alerted, whose count is left alone.
C9_RescheduledKeyIndependent ==
    [][/\ \A k \in Keys :
             alerts'[k] # alerts[k]
                => /\ k[1] \in DOMAIN store
                   /\ store[k[1]].status = "Callback"
                   /\ store[k[1]].callback_at = k[2]
       /\ TickAnswered =>
             \A id \in Alertable :
                 Alertable = {id}
                    => /\ alerts'[<<id, store[id].callback_at>>] = 1
                       /\ \A t \in CallbackInstants \ {store[id].callback_at} :
                             alerts'[<<id, t>>] = alerts[<<id, t>>]]_vars

\* one lead was alerted for two due times: it was rescheduled after the first
C9_Witness ==
    \E id \in LeadIds :
        \A t \in CallbackInstants : alerts[<<id, t>>] = 1

-----------------------------------------------------------------------------
(* Properties: DNC migration *)

PhoneCount(b, phone) == Cardinality({i \in DOMAIN b : b[i].phone = phone})

\* C6: when handleDNC runs on a lead whose previous run failed at the delete,
\* and this time the delete succeeds (and the insert meets nothing but the phone
\* constraint), the lead is gone from the table and the backlog holds exactly
\* one row with its phone.
C6_RetryAfterDeleteFailure ==
    [][(/\ lastOp.op = "dnc"
        /\ lastOp.res = "deleteFailed"
        /\ lastOp'.op = "dnc"
        /\ lastOp'.id = lastOp.id
        /\ lastOp'.ins \in {"ok", "duplicate"}
        /\ lastOp'.del = "ok")
       => /\ lastOp.id \notin DOMAIN store'
          /\ PhoneCount(backlog', leads[lastOp.id].phone) = 1]_vars

\* the retry met the row its first run had inserted, and removed the lead
C6_Witness ==
    /\ lastOp.op = "dnc"
    /\ lastOp.res = "ok"
    /\ lastOp.ins = "duplicate"
    /\ lastOp.id \notin DOMAIN store
    /\ \E i \in DOMAIN backlog : backlog[i].lead_id = lastOp.id

\* C10: a backlog insert refused for a duplicate phone does not stop the
\* migration (the lead is deleted, from table and memory, when the delete
\* succeeds); an insert that fails for another reason ends it with table, memory
\* and backlog as they were.
C10_DuplicateNonFatalOtherFatal ==
    [][lastOp'.op = "dnc" =>
          /\ (lastOp'.ins = "duplicate" /\ lastOp'.del = "ok")
                => /\ lastOp'.id \notin DOMAIN store'
                   /\ lastOp'.id \notin DOMAIN leads'
          /\ lastOp'.ins = "other"
                => /\ UNCHANGED <<store, leads, backlog>>
                   /\ lastOp'.id \in DOMAIN store'
                   /\ lastOp'.id \in DOMAIN leads']_vars

\* a lead whose phone another lead had backlogged was removed all the same
C10_Witness ==
    /\ lastOp.op = "dnc"
    /\ lastOp.res = "ok"
    /\ lastOp.ins = "duplicate"
    /\ lastOp.id \notin DOMAIN store
    /\ lastOp.id \notin DOMAIN leads
    /\ \A i \in DOMAIN backlog : backlog[i].lead_id # lastOp.id

\* C11: a run of handleDNC whose delete fails ends as "deleteFailed" (the
\* "Added to DNC backlog but failed to delete lead" alert) with the lead still
\* in the table and in memory, and the next run on that lead sends no insert
\* to dnc_backlog.
C11_DeleteFailedThenNoReinsert ==
    [][/\ (lastOp'.op = "dnc" /\ lastOp'.del = "error" /\ lastOp'.ins \in {"ok", "duplicate"})
             => /\ lastOp'.res = "deleteFailed"
                /\ UNCHANGED <<store, leads>>
                /\ lastOp'.id \in DOMAIN store'
                /\ lastOp'.id \in DOMAIN leads'
       /\ (/\ lastOp.op = "dnc"
           /\ lastOp.res = "deleteFailed"
           /\ lastOp'.op = "dnc"
           /\ lastOp'.id = lastOp.id)
             => lastOp'.ins = "-"]_vars

-----------------------------------------------------------------------------
(* Properties: CallbackAlerts across restarts, storage faults and other pollers *)

\* C12: whatever ticks, unmounts, mounts, reloads and localStorage writes
\* happen in one browser, CallbackAlerts calls alert() at most once for a key.
C12_AtMostOnceAcrossRestarts ==
    \A k \in Keys : alerts[k] <= 1

\* the keys for which a step calls alert(), and the keys it records
NewlyAlerted(a, b) == {k \in Keys : b[k] # a[k]}
NewlyRecorded(a, b) == Range(b) \ Range(a)

\* C13: a tick of either CallbackAlerts component calls alert() at most once, and
\* records the key of the lead it alerts and no other: the candidates after
\* the alerted one are left alone.
C13_OneAlertPerTick ==
    [][/\ Cardinality(NewlyAlerted(alerts, alerts')) <= 1
       /\ NewlyRecorded(alertedRef, alertedRef') = NewlyAlerted(alerts, alerts')
       /\ \A k \in Keys : alerts'[k] <= alerts[k] + 1
       /\ Cardinality(NewlyAlerted(srAlerts, srAlerts')) <= 1
       /\ NewlyRecorded(srAlertedRef, srAlertedRef') = NewlyAlerted(srAlerts, srAlerts')
       /\ \A k \in Keys : srAlerts'[k] <= srAlerts[k] + 1]_vars

\* a tick has just alerted one lead and left another, as due as the first,
\* neither alerted nor recorded
C13_Witness ==
    /\ lastOp.op = "tick"
    /\ lastOp.res = "alert"
    /\ \E id \in DOMAIN store \ {lastOp.id} :
          /\ store[id].status = "Callback"
          /\ store[id].callback_at <= lastOp.when + dueWindowMs
          /\ store[id].callback_at >= lastOp.when - maxOverdueMs
          /\ alerts[<<id, store[id].callback_at>>] = 0
          /\ <<id, store[id].callback_at>> \notin Range(alertedRef)

\* C14: when CallbackAlerts calls alert() for a key, localStorage holds the key
\* by then; and when the page dies between the write and alert(), the key is in
\* localStorage and in the set the restarted component loads, so that no later
\* tick alerts it.
C14_RecordedBeforeAlert ==
    [][/\ \A k \in Keys : alerts'[k] # alerts[k] => k \in Range(alertedLS')
       /\ lastOp'.op = "tickCrash"
             => \E t \in CallbackInstants :
                   /\ <<lastOp'.id, t>> \in Range(alertedLS') \ Range(alertedLS)
                   /\ <<lastOp'.id, t>> \in Range(alertedRef')]_vars

\* C15: a tick whose localStorage.setItem throws calls alert() for no lead.
C15_NoAlertWhenPersistFails ==
    [][(lastOp'.op = "tick" /\ lastOp'.ls = "failed") => alerts' = alerts]_vars

\* C16: a tick whose query fails changes neither alertedRef nor localStorage,
\* calls alert() for nothing and leaves runningRef false; the tick that
\* follows it sends its own query.
C16_QueryFailureNoSideEffects ==
    [][/\ (lastOp'.op = "tick" /\ lastOp'.res = "error")
             => /\ UNCHANGED <<alertedRef, alertedLS, alerts, store, leads>>
                /\ ~runningRef'
       /\ (lastOp.op = "tick" /\ lastOp.res = "error" /\ lastOp'.op = "tickStart")
             => /\ lastOp'.res = "query"
                /\ runningRef'
                /\ tickNow' = now]_vars

\* a tick's query has failed while a lead was due and not yet alerted
C16_Witness ==
    /\ lastOp.op = "tick"
    /\ lastOp.res = "error"
    /\ ~runningRef
    /\ \E id \in DOMAIN store :
          /\ store[id].status = "Callback"
          /\ store[id].callback_at # NullAt
          /\ store[id].callback_at <= lastOp.when + dueWindowMs
          /\ store[id].callback_at >= lastOp.when - maxOverdueMs
          /\ alerts[<<id, store[id].callback_at>>] = 0
          /\ <<id, store[id].callback_at>> \notin Range(alertedRef)

\* C17: CallbackAlerts and the leads page's tick, which share the storage key
\* 't555_callback_alerted', never both call alert() for the same key.
C17_NoDoubleAlertAcrossPollers ==
    \A k \in Keys : ~(alerts[k] >= 1 /\ pageAlerts[k] >= 1)

\* C18: once the interval of CallbackAlerts is cleared, and until the component
\* is mounted again, it records no key and calls alert() for nothing, a tick
\* that was awaiting its query included.
C18_NothingAfterStop ==
    [][(~mounted /\ ~mounted')
          => UNCHANGED <<alerts, alertedRef, alertedLS>>]_vars

\* C19: a lead that stays in Callback, inside the window and not stale is
\* alerted by some later tick, however many Callback leads with earlier
\* callback_at the table holds: no lead stays due and unalerted for ever.
C19_EveryDueLeadAlerted ==
    \A id \in 1..ManyLeads :
        []<>(\/ id \notin DOMAIN store
             \/ store[id].status # "Callback"
             \/ store[id].callback_at = NullAt
             \/ store[id].callback_at > now + dueWindowMs
             \/ store[id].callback_at < now - maxOverdueMs
             \/ \E k \in DOMAIN alerts : k[1] = id /\ alerts[k] >= 1)

-----------------------------------------------------------------------------
(* Properties: attribution *)

\* C20: a lead's status moves to one whose trigger is SENT_TO_CLIENT only with
\* a staff name and a sent-to name that are non-empty after trimming, and to one
\* whose trigger is PROSPECT_CLIENT only with such a staff name; a request
\* without them writes nothing and leaves the lead as it was.
C20_AttributionRequired ==
    [][/\ \A id \in DOMAIN store \cap DOMAIN store' :
              store'[id].status # store[id].status =>
                  /\ TriggerOf(cfg, store'[id].status) = "SENT_TO_CLIENT" =>
                        /\ store'[id].sent_by_name # NullStr
                        /\ Trim(store'[id].sent_by_name) # ""
                        /\ store'[id].sent_to_client # NullStr
                        /\ Trim(store'[id].sent_to_client) # ""
                  /\ TriggerOf(cfg, store'[id].status) = "PROSPECT_CLIENT" =>
                        /\ store'[id].prospect_by_name # NullStr
                        /\ Trim(store'[id].prospect_by_name) # ""
       /\ (lastOp'.op = "saveSentProspect" /\ lastOp'.res = "rejected")
              => UNCHANGED <<store, leads>>]_vars

\* C21: a saved SENT_TO_CLIENT transition writes the trimmed staff name and
\* sent-to name to sent_by_name and sent_to_client and leaves prospect_by_name as
\* it was; a saved PROSPECT_CLIENT transition writes prospect_by_name and leaves
\* sent_by_name and sent_to_client as they were; in the table and in memory. No
\* step that moves a stored lead to such a status touches the other trigger's
\* fields.
C21_AttributionFrame ==
    [][\A id \in DOMAIN store \cap DOMAIN store' :
          LET saved == /\ lastOp'.op = "saveSentProspect"
                       /\ lastOp'.res = "ok"
                       /\ lastOp'.id = id
              moved == store'[id].status # store[id].status
              t == TriggerOf(cfg, store'[id].status)
              inMem == id \in DOMAIN leads /\ id \in DOMAIN leads'
          IN /\ (saved /\ t = "SENT_TO_CLIENT") =>
                    /\ \E st \in StaffInputs, to \in SentToInputs :
                          /\ Trim(st) # "" /\ Trim(to) # ""
                          /\ store'[id].sent_by_name = Trim(st)
                          /\ store'[id].sent_to_client = Trim(to)
                          /\ inMem => /\ leads'[id].sent_by_name = Trim(st)
                                      /\ leads'[id].sent_to_client = Trim(to)
                    /\ store'[id].status = "Sent To Client"
                    /\ inMem => leads'[id].status = "Sent To Client"
             /\ (saved /\ t = "PROSPECT_CLIENT") =>
                    /\ \E st \in StaffInputs :
                          /\ Trim(st) # ""
                          /\ store'[id].prospect_by_name = Trim(st)
                          /\ inMem => leads'[id].prospect_by_name = Trim(st)
                    /\ store'[id].status = "Prospect Client"
                    /\ inMem => leads'[id].status = "Prospect Client"
             /\ ((saved \/ moved) /\ t = "SENT_TO_CLIENT") =>
                    /\ store'[id].prospect_by_name = store[id].prospect_by_name
                    /\ inMem => leads'[id].prospect_by_name = leads[id].prospect_by_name
             /\ ((saved \/ moved) /\ t = "PROSPECT_CLIENT") =>
                    /\ store'[id].sent_by_name = store[id].sent_by_name
                    /\ store'[id].sent_to_client = store[id].sent_to_client
                    /\ inMem => /\ leads'[id].sent_by_name = leads[id].sent_by_name
                                /\ leads'[id].sent_to_client = leads[id].sent_to_client]_vars

\* a SENT_TO_CLIENT transition has been saved on a lead that carries a
\* prospect_by_name from before
C21_Witness ==
    /\ lastOp.op = "saveSentProspect"
    /\ lastOp.res = "ok"
    /\ lastOp.target = "Sent To Client"
    /\ lastOp.id \in DOMAIN store
    /\ store[lastOp.id].prospect_by_name # NullStr
    /\ store[lastOp.id].sent_by_name # NullStr
    /\ lastOp.id \in DOMAIN leads
    /\ leads[lastOp.id].prospect_by_name # NullStr

\* C22: when the update of the leads table fails in a quick status change, a
\* callback save, a sent/prospect save or an edit save, the in-memory list of
\* leads is exactly what it was before the call (and the table is too).
C22_FailedWriteLeavesMemory ==
    [][(/\ lastOp'.op \in {"quick", "saveCallback", "saveSentProspect", "saveEdit"}
        /\ lastOp'.res = "error")
       => /\ leads' = leads
          /\ store' = store]_vars

\* an edit save has failed whose draft status differs from the lead's
C22_Witness ==
    /\ lastOp.op = "saveEdit"
    /\ lastOp.res = "error"
    /\ editDraft # NoDraft
    /\ editDraft.id \in DOMAIN leads
    /\ editDraft.row.status # leads[editDraft.id].status

-----------------------------------------------------------------------------
(* Properties: callback time *)

\* C23: a saved transition into "Callback" stores a callback_at that is not
\* earlier than the time of the request; a request with a callback time in the
\* past writes nothing.
C23_CallbackNotInPast ==
    [][/\ (lastOp'.op = "saveCallback" /\ lastOp'.res = "ok")
             => /\ lastOp'.id \in DOMAIN store'
                /\ store'[lastOp'.id].callback_at >= now
       /\ (lastOp'.op = "saveCallback" /\ lastOp'.when # NullAt /\ lastOp'.when < now)
             => UNCHANGED <<store, leads>>]_vars

-----------------------------------------------------------------------------
(* Properties: vocabulary and campaign keys *)

\* C24: the status of every lead in the table is one of the statusOptions of the
\* lead's campaign.
C24_StatusInVocabulary ==
    \A id \in DOMAIN store :
        /\ store[id].campaign \in CampaignKeys
        /\ store[id].status \in Range(CAMPAIGNS[store[id].campaign].statusOptions)

\* C25: an import row that names a campaign key the table of campaigns does
\* not hold is refused: no lead is created for it, under any campaign.
C25_UnknownCampaignRejected ==
    [][(lastOp'.op = "import" /\ lastOp'.target \notin CampaignKeys)
       => /\ lastOp'.res # "ok"
          /\ UNCHANGED <<store, leads>>]_vars

-----------------------------------------------------------------------------
(* Properties: two browsers *)

\* C26: when status changes of two browsers interleave on a lead, every write
\* leaves the row as the call applied to the row in the table would (the calls
\* take effect serially in the order of their writes), so that callback_at and
\* callback_note are null once a write has moved the row out of "Callback".
C26_LastWriteWinsSerially ==
    [][\A id \in DOMAIN store \cap DOMAIN store' :
          (/\ lastOp'.op \in {"quick", "peerQuick"}
           /\ lastOp'.res = "ok"
           /\ lastOp'.id = id)
          => /\ store'[id] = Merge(store[id], QuickPayload(store[id], lastOp'.target))
             /\ store'[id].status # "Callback" => /\ store'[id].callback_at = NullAt
                                                   /\ store'[id].callback_note = NullStr]_vars

-----------------------------------------------------------------------------
(* Properties: sales-reports poller *)

-----------------------------------------------------------------------------
(* Properties: modals *)

\* C28: choosing a status whose trigger is CALLBACK, SENT_TO_CLIENT or
\* PROSPECT_CLIENT writes nothing, and neither does anything that happens while
\* its modal is open short of a successful save, cancelling included: the lead is
\* in the table and in memory what it was before the status was chosen.
C28_CancelAppliesNothing ==
    [][/\ (/\ lastOp'.op = "quick"
           /\ lastOp'.res # "error"
           /\ lastOp'.target \in DOMAIN cfg.statusTriggers)
             => /\ UNCHANGED <<store, leads>>
                /\ cbLead' # NoLead \/ spLead' # NoLead
       /\ (lastOp'.op \in {"closeCallback", "closeSentProspect"})
             => /\ UNCHANGED <<store, leads>>
                /\ cbLead' = NoLead /\ spLead' = NoLead
       /\ ((cbLead # NoLead \/ spLead # NoLead) /\ lastOp'.res # "ok")
             => UNCHANGED <<store, leads>>]_vars

\* a modal has been cancelled and the lead it was opened for is in the table
C28_Witness ==
    /\ lastOp.op \in {"closeCallback", "closeSentProspect"}
    /\ lastOp.res = "cancel"
    /\ lastOp.id \in DOMAIN store
    /\ lastOp.id \in DOMAIN leads
    /\ store[lastOp.id].status # lastOp.target
    /\ cbLead = NoLead
    /\ spLead = NoLead

-----------------------------------------------------------------------------
(* Properties: one tick at a time *)

\* C29: in each CallbackAlerts component a tick that fires while another one
\* awaits its query returns at once, leaving the tick in flight, the alerted keys
\* and the alerts as they are; and a tick that ends, by a failed query, with
\* nothing to alert or with an alert, leaves the running flag released.
C29_OneTickAtATime ==
    [][/\ (lastOp'.op = "tickStart" /\ runningRef)
             => /\ lastOp'.res = "busy"
                /\ UNCHANGED <<runningRef, tickNow, alertedRef, alertedLS, alerts>>
       /\ (lastOp'.op = "tick") => (~runningRef' /\ tickNow' = NoTick)
       /\ (lastOp'.op = "tickStart" /\ ~runningRef) => (runningRef' /\ tickNow' = now)
       /\ (lastOp'.op = "srTickStart" /\ srRunningRef)
             => /\ lastOp'.res = "busy"
                /\ UNCHANGED <<srRunningRef, srTickNow, srAlertedRef, srAlertedLS, srAlerts>>
       /\ (lastOp'.op = "srTick") => (~srRunningRef' /\ srTickNow' = NoTick)
       /\ (lastOp'.op = "srTickStart" /\ lastOp'.res = "nouser") => ~srRunningRef']_vars

\* a tick has fired at a later time than the one still awaiting its query
C29_Witness ==
    /\ lastOp.op = "tickStart"
    /\ lastOp.res = "busy"
    /\ runningRef
    /\ tickNow # NoTick
    /\ tickNow < now

-----------------------------------------------------------------------------
(* Properties: DNC migration removes only what is backlogged *)

\* C30: when a run of handleDNC removes a lead from the table, dnc_backlog holds
\* a row with that lead's phone at that moment.
C30_DeletedOnlyIfBacklogged ==
    [][\A id \in DOMAIN store :
          (lastOp'.op = "dnc" /\ id \notin DOMAIN store')
          => \E i \in DOMAIN backlog' : backlog'[i].phone = store[id].phone]_vars

\* a run inserted the lead's row into the backlog and removed the lead
C30_Witness ==
    /\ lastOp.op = "dnc"
    /\ lastOp.res = "ok"
    /\ lastOp.ins = "ok"
    /\ lastOp.id \notin DOMAIN store
    /\ \E i \in DOMAIN backlog : backlog[i].lead_id = lastOp.id

====
